---------------------------- MODULE Spec2Model ----------------------------
(***************************************************************************)
(* chibivox: full-context labels -> linguistic tree -> AccentPhraseModel   *)
(* list -> duration / pitch assignment -> synthesis.                       *)
(*                                                                         *)
(* Representation choices                                                  *)
(*   - A label string is a sequence of tokens (delimiters and values); a   *)
(*     regex of the form  open (\d+|xx) close  is matched at the first     *)
(*     token position where the three tokens line up.                      *)
(*   - Option<T> is a sequence of length 0 (None) or 1 (Some).             *)
(*   - Result<T> is a record [res, val]; res is "Ok", the name of the      *)
(*     error that was returned, or "Panic" for an unwrap() / index that    *)
(*     aborts the thread.                                                  *)
(*   - f32 lengths are integers in units of 0.001 s, f32 pitches are       *)
(*     integers in units of 0.01.                                          *)
(***************************************************************************)
EXTENDS Integers, Sequences, FiniteSets, TLC

VARIABLES
    ap_in,           \* argument of AccentPhrase::from_phonemes
    ap_out,          \* its result
    labels,          \* argument of create_accent_phrases
    pc,              \* position in main's pipeline
    outcome,         \* how the pipeline ended so far
    utterance,       \* the Utterance built inside create_accent_phrases
    accent_phrases,  \* main's accent_phrases binding
    svc,             \* what the numeric services returned
    synth            \* locals of synthesis

vars == <<ap_in, ap_out, labels, pc, outcome, utterance, accent_phrases, svc, synth>>

None == <<>>
Some(x) == <<x>>

Ok(v) == [res |-> "Ok", val |-> v]
Fail(e, v) == [res |-> e, val |-> v]

\* Bounds of the model
MaxRun == 4
MaxLabels == 4
MaxPhrases == 3

(***************************************************************************)
(* full_context_label.rs : Phoneme                                         *)
(***************************************************************************)

\* str::parse::<usize> on the numerals that occur in the model
NumeralValue ==
    ("0" :> 0) @@ ("1" :> 1) @@ ("2" :> 2) @@ ("3" :> 3) @@ ("4" :> 4)
      @@ ("5" :> 5) @@ ("6" :> 6) @@ ("7" :> 7) @@ ("8" :> 8) @@ ("9" :> 9)
      @@ ("49" :> 49)

\* the regex alternative (\d+|xx)
NumOrXX(tok) == tok \in DOMAIN NumeralValue \/ tok = "xx"

\* the regexes: [open, close, free]; free marks the (.*?) capture of P3
P3_REGEX == [open |-> "-", close |-> "+", free |-> TRUE]
A2_REGEX == [open |-> "+", close |-> "+", free |-> FALSE]
A3_REGEX == [open |-> "+", close |-> "/B:", free |-> FALSE]
F1_REGEX == [open |-> "/F:", close |-> "_", free |-> FALSE]
F2_REGEX == [open |-> "_", close |-> "#", free |-> FALSE]
F3_REGEX == [open |-> "#", close |-> "_", free |-> FALSE]
F5_REGEX == [open |-> "@", close |-> "_", free |-> FALSE]
H1_REGEX == [open |-> "/H:", close |-> "_", free |-> FALSE]
I3_REGEX == [open |-> "@", close |-> "+", free |-> FALSE]
J1_REGEX == [open |-> "/J:", close |-> "_", free |-> FALSE]

\* positions where the regex matches (capture group 2 is the token after open)
MatchesAt(re, label) ==
    { i \in 1..(Len(label) - 2) :
        /\ label[i] = re.open
        /\ label[i + 2] = re.close
        /\ (re.free \/ NumOrXX(label[i + 1])) }

Min(S) == CHOOSE x \in S : \A y \in S : x <= y

string_feature_by_regex(re, label) ==
    IF MatchesAt(re, label) = {}
    THEN Fail("LabelParse", "")
    ELSE Ok(label[Min(MatchesAt(re, label)) + 1])

FieldRegexes ==
    <<[name |-> "p3", re |-> P3_REGEX], [name |-> "a2", re |-> A2_REGEX],
      [name |-> "a3", re |-> A3_REGEX], [name |-> "f1", re |-> F1_REGEX],
      [name |-> "f2", re |-> F2_REGEX], [name |-> "f3", re |-> F3_REGEX],
      [name |-> "f5", re |-> F5_REGEX], [name |-> "h1", re |-> H1_REGEX],
      [name |-> "i3", re |-> I3_REGEX], [name |-> "j1", re |-> J1_REGEX]>>

NoPhoneme ==
    [p3 |-> "", a2 |-> "", a3 |-> "", f1 |-> "", f2 |-> "", f3 |-> "",
     f5 |-> "", h1 |-> "", i3 |-> "", j1 |-> ""]

\* Phoneme::from_label: the ten fields in order, `?` on the first one that fails
Phoneme_from_label(label) ==
    LET F(k) == string_feature_by_regex(FieldRegexes[k].re, label)
    IN  IF \E k \in 1..10 : F(k).res # "Ok"
        THEN Fail("LabelParse", NoPhoneme)
        ELSE Ok([p3 |-> F(1).val, a2 |-> F(2).val, a3 |-> F(3).val,
                 f1 |-> F(4).val, f2 |-> F(5).val, f3 |-> F(6).val,
                 f5 |-> F(7).val, h1 |-> F(8).val, i3 |-> F(9).val,
                 j1 |-> F(10).val])

is_pause(phoneme) == phoneme.f1 = "xx"

(***************************************************************************)
(* full_context_label.rs : Mora, AccentPhrase                              *)
(***************************************************************************)

Mora_phonemes(mora) ==
    IF mora.consonant # None
    THEN <<mora.consonant[1], mora.vowel>>
    ELSE <<mora.vowel>>

NoAccentPhrase == [moras |-> <<>>, accent |-> 0, is_interrogative |-> FALSE]

\* SegmentMoras without the TooLongMora case: any longer buffer is taken as
\* consonant and vowel
RECURSIVE SegmentMoras_AnyLength(_, _, _, _)
SegmentMoras_AnyLength(phonemes, i, moras, mora_phonemes) ==
    IF i > Len(phonemes) THEN Ok(moras)
    ELSE IF phonemes[i].a2 = "49" THEN Ok(moras)
    ELSE
      LET buf == Append(mora_phonemes, phonemes[i])
      IN  IF i = Len(phonemes) \/ phonemes[i].a2 # phonemes[i + 1].a2
          THEN IF Len(buf) = 1
               THEN SegmentMoras_AnyLength(phonemes, i + 1,
                        Append(moras, [consonant |-> None, vowel |-> buf[1]]), <<>>)
               ELSE SegmentMoras_AnyLength(phonemes, i + 1,
                        Append(moras, [consonant |-> Some(buf[1]), vowel |-> buf[2]]), <<>>)
          ELSE SegmentMoras_AnyLength(phonemes, i + 1, moras, buf)

\* the for loop of AccentPhrase::from_phonemes, from index i on (1-based),
\* with the moras pushed and the phonemes buffered so far
RECURSIVE SegmentMoras(_, _, _, _)
SegmentMoras(phonemes, i, moras, mora_phonemes) ==
    IF i > Len(phonemes) THEN Ok(moras)
    ELSE IF phonemes[i].a2 = "49" THEN Ok(moras)
    ELSE
      LET buf == Append(mora_phonemes, phonemes[i])
      IN  IF i = Len(phonemes) \/ phonemes[i].a2 # phonemes[i + 1].a2
          THEN IF Len(buf) = 1
               THEN SegmentMoras(phonemes, i + 1,
                        Append(moras, [consonant |-> None, vowel |-> buf[1]]), <<>>)
               ELSE IF Len(buf) = 2
               THEN SegmentMoras(phonemes, i + 1,
                        Append(moras, [consonant |-> Some(buf[1]), vowel |-> buf[2]]), <<>>)
               ELSE Fail("TooLongMora", <<>>)
          ELSE SegmentMoras(phonemes, i + 1, moras, buf)

\* the accent clamp (workaround for VOICEVOX/voicevox_engine#55)
ClampAccent(accent, n) == IF accent > n THEN n ELSE accent

\* what from_phonemes does after its loop, given the loop's result
AccentPhraseOfMoras(seg) ==
    IF seg.res # "Ok" THEN Fail(seg.res, NoAccentPhrase)
    ELSE IF seg.val = <<>> THEN Fail("Panic", NoAccentPhrase)
    ELSE IF seg.val[1].vowel.f2 \notin DOMAIN NumeralValue
    THEN Fail("ParseIntError", NoAccentPhrase)
    ELSE Ok([moras |-> seg.val,
             accent |-> ClampAccent(NumeralValue[seg.val[1].vowel.f2], Len(seg.val)),
             is_interrogative |-> (seg.val[Len(seg.val)].vowel.f3 = "1")])

AccentPhrase_from_phonemes(phonemes) ==
    AccentPhraseOfMoras(SegmentMoras(phonemes, 1, <<>>, <<>>))

(***************************************************************************)
(* full_context_label.rs : BreathGroup, Utterance                          *)
(***************************************************************************)

RECURSIVE CollectPhrases(_, _, _, _)

\* accent_phrases.push(AccentPhrase::from_phonemes(..)?) and the rest of the loop
PushPhrase(phonemes, i, phrases, ap) ==
    IF ap.res # "Ok" THEN Fail(ap.res, <<>>)
    ELSE CollectPhrases(phonemes, i + 1, Append(phrases, ap.val), <<>>)

\* CollectPhrases that closes an accent phrase on a change of i3 only
CollectPhrases_I3Only(phonemes, i, phrases, accent_phonemes) ==
    IF i > Len(phonemes) THEN Ok(phrases)
    ELSE IF \/ i = Len(phonemes)
            \/ phonemes[i].i3 # phonemes[i + 1].i3
    THEN PushPhrase(phonemes, i, phrases,
                    AccentPhrase_from_phonemes(Append(accent_phonemes, phonemes[i])))
    ELSE CollectPhrases(phonemes, i + 1, phrases, Append(accent_phonemes, phonemes[i]))

\* the for loop of BreathGroup::from_phonemes from index i on
CollectPhrases(phonemes, i, phrases, accent_phonemes) ==
    IF i > Len(phonemes) THEN Ok(phrases)
    ELSE IF \/ i = Len(phonemes)
            \/ phonemes[i].i3 # phonemes[i + 1].i3
            \/ phonemes[i].f5 # phonemes[i + 1].f5
    THEN PushPhrase(phonemes, i, phrases,
                    AccentPhrase_from_phonemes(Append(accent_phonemes, phonemes[i])))
    ELSE CollectPhrases(phonemes, i + 1, phrases, Append(accent_phonemes, phonemes[i]))

BreathGroupOfPhrases(r) == [res |-> r.res, val |-> [accent_phrases |-> r.val]]

BreathGroup_from_phonemes(phonemes) ==
    BreathGroupOfPhrases(CollectPhrases(phonemes, 1, <<>>, <<>>))

RECURSIVE CollectGroups(_, _, _, _)

\* breath_groups.push(BreathGroup::from_phonemes(..)?) and the rest of the loop
PushGroup(phonemes, i, breath_groups, bg) ==
    IF bg.res # "Ok" THEN Fail(bg.res, <<>>)
    ELSE CollectGroups(phonemes, i + 1, Append(breath_groups, bg.val), <<>>)

\* the for loop of Utterance::from_phonemes from index i on; the phonemes left
\* in group_phonemes when the loop ends are not used
CollectGroups(phonemes, i, breath_groups, group_phonemes) ==
    IF i > Len(phonemes) THEN Ok(breath_groups)
    ELSE IF ~is_pause(phonemes[i])
    THEN CollectGroups(phonemes, i + 1, breath_groups, Append(group_phonemes, phonemes[i]))
    ELSE IF group_phonemes # <<>>
    THEN PushGroup(phonemes, i, breath_groups, BreathGroup_from_phonemes(group_phonemes))
    ELSE CollectGroups(phonemes, i + 1, breath_groups, group_phonemes)

UtteranceOfGroups(r) == [res |-> r.res, val |-> [breath_groups |-> r.val]]

Utterance_from_phonemes(phonemes) ==
    UtteranceOfGroups(CollectGroups(phonemes, 1, <<>>, <<>>))

(***************************************************************************)
(* synthesis_engine.rs : create_accent_phrases                             *)
(***************************************************************************)

UNVOICED_MORA_PHONEME_LIST == <<"A", "I", "U", "E", "O", "cl", "pau">>
MORA_PHONEME_LIST ==
    <<"a", "i", "u", "e", "o", "N", "A", "I", "U", "E", "O", "cl", "pau">>

Contains(list, x) == \E k \in 1..Len(list) : list[k] = x

\* mora_list.rs: rows [text, consonant, vowel]; the kana are written by name
MORA_LIST_MINIMUM ==
    <<<<"kana(ka)", "k", "a">>, <<"kana(ki)", "k", "i">>, <<"kana(ku)", "k", "u">>,
      <<"kana(so)", "s", "o">>, <<"kana(a)", "", "a">>, <<"kana(i)", "", "i">>,
      <<"kana(u)", "", "u">>, <<"kana(e)", "", "e">>, <<"kana(o)", "", "o">>,
      <<"kana(n)", "", "N">>, <<"kana(tsu)", "", "cl">>>>

\* char::to_lowercase on the capital vowels
ToLowercase(sym) ==
    CASE sym = "A" -> "a" [] sym = "I" -> "i" [] sym = "U" -> "u"
      [] sym = "E" -> "e" [] sym = "O" -> "o" [] OTHER -> sym

\* mora_to_text; the mora string is the sequence of its phoneme symbols
mora_to_text(mora) ==
    LET last == mora[Len(mora)]
        folded == IF last \in {"A", "I", "U", "E", "O"}
                  THEN SubSeq(mora, 1, Len(mora) - 1) \o <<ToLowercase(last)>>
                  ELSE mora
        Hit(k) == /\ (MORA_LIST_MINIMUM[k][2] = "" \/ folded[1] = MORA_LIST_MINIMUM[k][2])
                  /\ folded[Len(folded)] = MORA_LIST_MINIMUM[k][3]
        hits == { k \in 1..Len(MORA_LIST_MINIMUM) : Hit(k) }
    IN  IF hits = {} THEN folded ELSE <<MORA_LIST_MINIMUM[Min(hits)][1]>>

\* the MoraModel that create_accent_phrases makes of a Mora
MoraModelOf(mora) ==
    [text |-> mora_to_text([k \in 1..Len(Mora_phonemes(mora)) |-> Mora_phonemes(mora)[k].p3]),
     consonant |-> IF mora.consonant # None THEN Some(mora.consonant[1].p3) ELSE None,
     consonant_length |-> IF mora.consonant # None THEN Some(0) ELSE None,
     vowel |-> mora.vowel.p3,
     vowel_length |-> 0,
     pitch |-> 0]

PauseMoraModel ==
    [text |-> <<"U+3001">>, consonant |-> None, consonant_length |-> None,
     vowel |-> "pau", vowel_length |-> 0, pitch |-> 0]

\* AccentPhraseModelOf with a pause mora after the last breath group too
AccentPhraseModelOf_PauseAfterLast(utt, i, j) ==
    LET breath_group == utt.breath_groups[i + 1]
        accent_phrase == breath_group.accent_phrases[j + 1]
    IN  [moras |-> [m \in 1..Len(accent_phrase.moras) |-> MoraModelOf(accent_phrase.moras[m])],
         accent |-> accent_phrase.accent,
         pause_mora |-> IF j = Len(breath_group.accent_phrases) - 1
                        THEN Some(PauseMoraModel) ELSE None,
         is_interrogative |-> accent_phrase.is_interrogative]

\* the inner closure: accent phrase j of breath group i (both 0-based)
AccentPhraseModelOf(utt, i, j) ==
    LET breath_group == utt.breath_groups[i + 1]
        accent_phrase == breath_group.accent_phrases[j + 1]
    IN  [moras |-> [m \in 1..Len(accent_phrase.moras) |-> MoraModelOf(accent_phrase.moras[m])],
         accent |-> accent_phrase.accent,
         pause_mora |-> IF /\ i # Len(utt.breath_groups) - 1
                           /\ j = Len(breath_group.accent_phrases) - 1
                        THEN Some(PauseMoraModel) ELSE None,
         is_interrogative |-> accent_phrase.is_interrogative]

\* the fold over the breath groups, from group i (0-based) on
RECURSIVE FoldGroups(_, _, _)
FoldGroups(utt, i, accum_vec) ==
    IF i >= Len(utt.breath_groups) THEN accum_vec
    ELSE FoldGroups(utt, i + 1,
            accum_vec \o [j \in 1..Len(utt.breath_groups[i + 1].accent_phrases) |->
                            AccentPhraseModelOf(utt, i, j - 1)])

\* labels -> phonemes: Phoneme::from_label(x).unwrap() on every label
ParseLabels(ls) ==
    IF \E k \in 1..Len(ls) : Phoneme_from_label(ls[k]).res # "Ok"
    THEN Fail("Panic", <<>>)
    ELSE Ok([k \in 1..Len(ls) |-> Phoneme_from_label(ls[k]).val])

\* create_accent_phrases from the Utterance on
ModelsOfUtterance(utt) ==
    IF utt.res # "Ok"
    THEN [res |-> utt.res, val |-> <<>>, utterance |-> [breath_groups |-> <<>>]]
    ELSE [res |-> "Ok", val |-> FoldGroups(utt.val, 0, <<>>), utterance |-> utt.val]

\* create_accent_phrases from the parsed labels on
ModelsOfPhonemes(phonemes) ==
    IF phonemes.res # "Ok"
    THEN [res |-> phonemes.res, val |-> <<>>, utterance |-> [breath_groups |-> <<>>]]
    ELSE ModelsOfUtterance(Utterance_from_phonemes(phonemes.val))

\* create_accent_phrases: [res, val] and the Utterance it built on the way
create_accent_phrases(ls) == ModelsOfPhonemes(ParseLabels(ls))

(***************************************************************************)
(* synthesis_engine.rs : initial_process, split_mora                       *)
(***************************************************************************)

\* acoustic_feature_extractor.rs, OjtPhoneme::convert: the sequence that is
\* sent on to the codec is the one that was built, symbol by symbol
OjtPhoneme_convert(phonemes) == [k \in 1..Len(phonemes) |-> phonemes[k]]

\* moras.into_iter().chain(pause_mora.into_iter()) of one accent phrase
PhraseMoras(accent_phrase) == accent_phrase.moras \o accent_phrase.pause_mora

RECURSIVE FlattenMoras(_)
FlattenMoras(aps) ==
    IF aps = <<>> THEN <<>>
    ELSE PhraseMoras(Head(aps)) \o FlattenMoras(Tail(aps))

\* MoraSymbols with the vowel in front of the consonant
RECURSIVE MoraSymbols_VowelFirst(_)
MoraSymbols_VowelFirst(moras) ==
    IF moras = <<>> THEN <<>>
    ELSE <<Head(moras).vowel>> \o Head(moras).consonant
           \o MoraSymbols_VowelFirst(Tail(moras))

\* consonant (if any) then vowel of every mora
RECURSIVE MoraSymbols(_)
MoraSymbols(moras) ==
    IF moras = <<>> THEN <<>>
    ELSE Head(moras).consonant \o <<Head(moras).vowel>> \o MoraSymbols(Tail(moras))

initial_process(aps) ==
    LET flatten_moras == FlattenMoras(aps)
        phoneme_strings == <<"pau">> \o MoraSymbols(flatten_moras) \o <<"pau">>
    IN  [flatten_moras |-> flatten_moras,
         phoneme_data_list |-> OjtPhoneme_convert(phoneme_strings)]

\* the elements of a set of integers in increasing order
RECURSIVE Sorted(_)
Sorted(S) == IF S = {} THEN <<>> ELSE <<Min(S)>> \o Sorted(S \ {Min(S)})

\* the filter_map of split_mora: 0-based positions of the mora phonemes
VowelIndexes(phoneme_list) ==
    Sorted({ i \in 0..(Len(phoneme_list) - 1) :
               Contains(MORA_PHONEME_LIST, phoneme_list[i + 1]) })

\* the rest of split_mora, over windows(2) of vowel_indexes
SplitAt(phoneme_list, vowel_indexes) ==
    [consonant_phoneme_list |->
         <<"">> \o [w \in 1..(Len(vowel_indexes) - 1) |->
                      IF vowel_indexes[w + 1] - vowel_indexes[w] = 1
                      THEN ""
                      ELSE phoneme_list[(vowel_indexes[w + 1] - 1) + 1]],
     vowel_phoneme_list |->
         [k \in 1..Len(vowel_indexes) |-> phoneme_list[vowel_indexes[k] + 1]],
     vowel_indexes |-> vowel_indexes]

split_mora(phoneme_list) == SplitAt(phoneme_list, VowelIndexes(phoneme_list))

(***************************************************************************)
(* inference.rs : predict_duration;  synthesis_engine.rs :                 *)
(* replace_phoneme_length                                                  *)
(***************************************************************************)

PHONEME_LENGTH_MINIMAL == 10

\* predict_duration without the floor
predict_duration_NoFloor(output) == [k \in 1..Len(output) |-> output[k]]

\* the map over the service's output tensor
predict_duration(output) ==
    [k \in 1..Len(output) |->
        IF output[k] < PHONEME_LENGTH_MINIMAL THEN PHONEME_LENGTH_MINIMAL ELSE output[k]]

\* IndexBefore when the pause mora does not advance the counter
RECURSIVE IndexBefore_PauseNotCounted(_, _)
IndexBefore_PauseNotCounted(aps, p) ==
    IF p = 1 THEN 0
    ELSE IndexBefore_PauseNotCounted(aps, p - 1) + Len(aps[p - 1].moras)

\* value of the running counter `index` when accent phrase p (1-based) starts
RECURSIVE IndexBefore(_, _)
IndexBefore(aps, p) ==
    IF p = 1 THEN 0
    ELSE IndexBefore(aps, p - 1) + Len(PhraseMoras(aps[p - 1]))

\* total number of increments of `index`
IndexAfter(aps) == Len(FlattenMoras(aps))

\* the map over accent_phrases in replace_phoneme_length
ScatterLengths(aps, vowel_indexes_data, phoneme_length) ==
    LET \* phoneme_length[vowel_indexes_data[index + 1] as usize - back]
        InRange(index, back) ==
            /\ index + 2 <= Len(vowel_indexes_data)
            /\ vowel_indexes_data[index + 2] - back >= 0
            /\ vowel_indexes_data[index + 2] - back < Len(phoneme_length)
        At(index, back) == phoneme_length[(vowel_indexes_data[index + 2] - back) + 1]
        NewMora(mora, index) ==
            [text |-> mora.text,
             consonant |-> mora.consonant,
             consonant_length |->
                 IF mora.consonant # None THEN Some(At(index, 1)) ELSE None,
             vowel |-> mora.vowel,
             vowel_length |-> At(index, 0),
             pitch |-> mora.pitch]
        NewPause(pause_mora, index) ==
            [text |-> pause_mora.text,
             consonant |-> pause_mora.consonant,
             consonant_length |-> pause_mora.consonant_length,
             vowel |-> pause_mora.vowel,
             vowel_length |-> At(index, 0),
             pitch |-> pause_mora.pitch]
        NewPhrase(p) ==
            [moras |-> [m \in 1..Len(aps[p].moras) |->
                          NewMora(aps[p].moras[m], IndexBefore(aps, p) + m - 1)],
             accent |-> aps[p].accent,
             pause_mora |->
                 IF aps[p].pause_mora # None
                 THEN Some(NewPause(aps[p].pause_mora[1],
                                    IndexBefore(aps, p) + Len(aps[p].moras)))
                 ELSE None,
             is_interrogative |-> aps[p].is_interrogative]
        AllInRange ==
            \A p \in 1..Len(aps) :
                /\ \A m \in 1..Len(aps[p].moras) :
                      /\ InRange(IndexBefore(aps, p) + m - 1, 0)
                      /\ aps[p].moras[m].consonant # None
                            => InRange(IndexBefore(aps, p) + m - 1, 1)
                /\ aps[p].pause_mora # None
                      => InRange(IndexBefore(aps, p) + Len(aps[p].moras), 0)
    IN  IF AllInRange
        THEN Ok([p \in 1..Len(aps) |-> NewPhrase(p)])
        ELSE Fail("Panic", <<>>)

\* replace_phoneme_length, given what the duration service returned
replace_phoneme_length(aps, output) ==
    ScatterLengths(aps,
                   split_mora(initial_process(aps).phoneme_data_list).vowel_indexes,
                   predict_duration(output))

(***************************************************************************)
(* synthesis_engine.rs : replace_mora_pitch                                *)
(***************************************************************************)

\* create_one_accent_list: the value of mora i (0-based) once, and once more
\* when the mora has a consonant; a 0 for the pause mora
create_one_accent_list(accent_phrase, point) ==
    LET value(i) ==
            IF \/ i = point
               \/ (point < 0 /\ i = Len(accent_phrase.moras) + point)
            THEN 1 ELSE 0
        OfMora(i) ==
            <<value(i)>>
              \o (IF accent_phrase.moras[i + 1].consonant # None THEN <<value(i)>> ELSE <<>>)
        RECURSIVE From(_)
        From(i) == IF i >= Len(accent_phrase.moras) THEN <<>>
                   ELSE OfMora(i) \o From(i + 1)
    IN  From(0) \o (IF accent_phrase.pause_mora # None THEN <<0>> ELSE <<>>)

\* once(0).chain(accent_phrases.iter().flat_map(..)).chain(once(0)), with the
\* point of every accent phrase given as points[p]
RECURSIVE FlatMapAccentLists(_, _, _)
FlatMapAccentLists(aps, points, p) ==
    IF p > Len(aps) THEN <<>>
    ELSE create_one_accent_list(aps[p], points[p])
           \o FlatMapAccentLists(aps, points, p + 1)

BaseAccentList(aps, points) == <<0>> \o FlatMapAccentLists(aps, points, 1) \o <<0>>

\* the four base lists of replace_mora_pitch
base_start_accent_list(aps) ==
    BaseAccentList(aps, [p \in 1..Len(aps) |-> IF aps[p].accent # 1 THEN 1 ELSE 0])

base_end_accent_list(aps) ==
    BaseAccentList(aps, [p \in 1..Len(aps) |-> aps[p].accent - 1])

base_start_accent_phrase_list(aps) ==
    BaseAccentList(aps, [p \in 1..Len(aps) |-> 0])

base_end_accent_phrase_list(aps) ==
    BaseAccentList(aps, [p \in 1..Len(aps) |-> -1])

\* ZeroUnvoiced that knows the devoiced vowels only
ZeroUnvoiced_VowelsOnly(f0, vowel_phoneme_data_list) ==
    [k \in 1..Len(f0) |->
        IF vowel_phoneme_data_list[k] \in {"A", "I", "U", "E", "O"}
        THEN 0 ELSE f0[k]]

\* the map over predict_intonation's result
ZeroUnvoiced(f0, vowel_phoneme_data_list) ==
    [k \in 1..Len(f0) |->
        IF Contains(UNVOICED_MORA_PHONEME_LIST, vowel_phoneme_data_list[k])
        THEN 0 ELSE f0[k]]

\* ScatterPitch that builds every mora anew and lets its lengths fall back
\* to the initial ones
ScatterPitch_LengthsLost(aps, f0_list) ==
    LET NewMora(mora, index) ==
            [text |-> mora.text,
             consonant |-> mora.consonant,
             consonant_length |-> IF mora.consonant # None THEN Some(0) ELSE None,
             vowel |-> mora.vowel,
             vowel_length |-> 0,
             pitch |-> f0_list[(index + 1) + 1]]
        NewPhrase(p) ==
            [moras |-> [m \in 1..Len(aps[p].moras) |->
                          NewMora(aps[p].moras[m], IndexBefore(aps, p) + m - 1)],
             accent |-> aps[p].accent,
             pause_mora |->
                 IF aps[p].pause_mora # None
                 THEN Some(NewMora(aps[p].pause_mora[1],
                                   IndexBefore(aps, p) + Len(aps[p].moras)))
                 ELSE None,
             is_interrogative |-> aps[p].is_interrogative]
    IN  IF IndexAfter(aps) + 1 <= Len(f0_list)
        THEN Ok([p \in 1..Len(aps) |-> NewPhrase(p)])
        ELSE Fail("Panic", <<>>)

\* the map over accent_phrases in replace_mora_pitch
ScatterPitch(aps, f0_list) ==
    LET NewMora(mora, index) ==
            [text |-> mora.text,
             consonant |-> mora.consonant,
             consonant_length |-> mora.consonant_length,
             vowel |-> mora.vowel,
             vowel_length |-> mora.vowel_length,
             pitch |-> f0_list[(index + 1) + 1]]
        NewPhrase(p) ==
            [moras |-> [m \in 1..Len(aps[p].moras) |->
                          NewMora(aps[p].moras[m], IndexBefore(aps, p) + m - 1)],
             accent |-> aps[p].accent,
             pause_mora |->
                 IF aps[p].pause_mora # None
                 THEN Some(NewMora(aps[p].pause_mora[1],
                                   IndexBefore(aps, p) + Len(aps[p].moras)))
                 ELSE None,
             is_interrogative |-> aps[p].is_interrogative]
    IN  IF IndexAfter(aps) + 1 <= Len(f0_list)
        THEN Ok([p \in 1..Len(aps) |-> NewPhrase(p)])
        ELSE Fail("Panic", <<>>)

\* replace_mora_pitch from the service's answer on
PitchOfOutput(aps, output, vowel_phoneme_data_list) ==
    IF Len(output) <= Len(vowel_phoneme_data_list)
    THEN ScatterPitch(aps, ZeroUnvoiced(output, vowel_phoneme_data_list))
    ELSE Fail("Panic", <<>>)

\* replace_mora_pitch, given what the pitch service returned
replace_mora_pitch(aps, output) ==
    PitchOfOutput(aps, output,
                  split_mora(initial_process(aps).phoneme_data_list).vowel_phoneme_list)

(***************************************************************************)
(* synthesis_engine.rs : interrogative adjustment                          *)
(***************************************************************************)

FIX_VOWEL_LENGTH == 150
ADJUST_PITCH == 30
MAX_PITCH == 650

\* make_interrogative_mora without the cap
make_interrogative_mora_NoCap(last_mora) ==
    [text |-> mora_to_text(<<last_mora.vowel>>),
     consonant |-> None,
     consonant_length |-> None,
     vowel |-> last_mora.vowel,
     vowel_length |-> FIX_VOWEL_LENGTH,
     pitch |-> last_mora.pitch + ADJUST_PITCH]

make_interrogative_mora(last_mora) ==
    [text |-> mora_to_text(<<last_mora.vowel>>),
     consonant |-> None,
     consonant_length |-> None,
     vowel |-> last_mora.vowel,
     vowel_length |-> FIX_VOWEL_LENGTH,
     pitch |-> IF last_mora.pitch + ADJUST_PITCH <= MAX_PITCH
               THEN last_mora.pitch + ADJUST_PITCH ELSE MAX_PITCH]

adjust_interrogative_moras(accent_phrase) ==
    LET moras == accent_phrase.moras
    IN  IF /\ accent_phrase.is_interrogative
           /\ moras # <<>>
           /\ moras[Len(moras)].pitch # 0
        THEN Append(moras, make_interrogative_mora(moras[Len(moras)]))
        ELSE moras

adjust_interrogative_accent_phrases(aps) ==
    [p \in 1..Len(aps) |->
        [moras |-> adjust_interrogative_moras(aps[p]),
         accent |-> aps[p].accent,
         pause_mora |-> aps[p].pause_mora,
         is_interrogative |-> aps[p].is_interrogative]]

(***************************************************************************)
(* inference.rs : decode                                                   *)
(***************************************************************************)

\* An f32 that went through the division by the number of voiced moras is
\* kept as the fraction num / den in lowest terms, den > 0.
RECURSIVE GCD(_, _)
GCD(a, b) == IF b = 0 THEN a ELSE GCD(b, a % b)

Abs(x) == IF x < 0 THEN -x ELSE x

Frac(num, den) ==
    [num |-> num \div GCD(Abs(num), den), den |-> den \div GCD(Abs(num), den)]

\* acoustic_feature_extractor.rs, the phoneme classes of the acoustic models:
\* phoneme_id is the 0-based place in this list, num_phoneme its length
PHONEME_LIST ==
    <<"pau", "A", "E", "I", "N", "O", "U", "a", "b", "by", "ch", "cl", "d",
      "dy", "e", "f", "g", "gw", "gy", "h", "hy", "i", "j", "k", "kw", "ky",
      "m", "my", "n", "ny", "o", "p", "py", "r", "ry", "s", "sh", "t", "ts",
      "ty", "u", "v", "w", "y", "z">>

OjtPhoneme_phoneme_id(phoneme) ==
    IF \E k \in 1..Len(PHONEME_LIST) : PHONEME_LIST[k] = phoneme
    THEN (CHOOSE k \in 1..Len(PHONEME_LIST) : PHONEME_LIST[k] = phoneme) - 1
    ELSE -1

OjtPhoneme_num_phoneme == Len(PHONEME_LIST)

DEFAULT_SAMPLING_RATE == 24000

\* f64::round of num / den for num >= 0: to the nearest, halves away from zero
Round(num, den) == (2 * num + den) \div (2 * den)

\* ((PADDING_SIZE * DEFAULT_SAMPLING_RATE) / 256.0).round(), PADDING_SIZE = 4/10
padding_size == Round(4 * DEFAULT_SAMPLING_RATE, 10 * 256)

make_f0_with_padding(f0, padding) ==
    [k \in 1..padding |-> Frac(0, 1)] \o f0 \o [k \in 1..padding |-> Frac(0, 1)]

\* The phoneme matrix is kept row by row; a row holds one 1.0 and is kept as
\* the column that 1.0 is in.  The padding rows come from
\* once(1.0).chain(repeat(0.0).take(phoneme_size - 1)).cycle(): column 0,
\* when a row has a column at all.
make_phoneme_with_padding(phoneme, phoneme_size, padding) ==
    IF phoneme_size >= 1
    THEN [k \in 1..padding |-> 0] \o phoneme \o [k \in 1..padding |-> 0]
    ELSE phoneme

\* A wave is a run of the samples the decode service returned, kept as the
\* 0-based positions [from, to) it holds of the service's answer.
Wave(from, to) == [from |-> from, to |-> to]
WaveLen(wave) == wave.to - wave.from

\* Vec::drain(from..to).collect(): panics unless from <= to <= len
Drain(wave, from, to) ==
    IF from <= to /\ to <= WaveLen(wave)
    THEN Ok(Wave(wave.from + from, wave.from + to))
    ELSE Fail("Panic", Wave(0, 0))

\* output.len() - padding_sampling_size is a usize subtraction: below zero it
\* panics (overflow check) or wraps to a range end past the end, and drain panics
trim_padding_from_output(output, padding_f0_size) ==
    IF WaveLen(output) < padding_f0_size * 256
    THEN Fail("Panic", Wave(0, 0))
    ELSE Drain(output, padding_f0_size * 256, WaveLen(output) - padding_f0_size * 256)

\* what decode sends to the service
DecodeRequest(length, f0, phoneme_vector) ==
    [length_with_padding |-> length + 2 * padding_size,
     f0_with_padding |-> make_f0_with_padding(f0, padding_size),
     phoneme_with_padding |->
         make_phoneme_with_padding(phoneme_vector, OjtPhoneme_num_phoneme, padding_size)]

\* into_shape refuses an array whose number of rows is not length_with_padding
ShapeFits(request) ==
    /\ Len(request.f0_with_padding) = request.length_with_padding
    /\ Len(request.phoneme_with_padding) = request.length_with_padding

\* decode, given the number of samples in the service's answer
decode(length, f0, phoneme_vector, wave_len) ==
    IF ShapeFits(DecodeRequest(length, f0, phoneme_vector))
    THEN trim_padding_from_output(Wave(0, wave_len), padding_size)
    ELSE Fail("ShapeError", Wave(0, 0))

(***************************************************************************)
(* synthesis_engine.rs : synthesis                                         *)
(***************************************************************************)

\* 2.0_f32.powf(pitch_scale) for a pitch_scale in 0, 1, 2, ...
RECURSIVE Pow2(_)
Pow2(k) == IF k = 0 THEN 1 ELSE 2 * Pow2(k - 1)

RECURSIVE SeqSum(_)
SeqSum(seq) == IF seq = <<>> THEN 0 ELSE Head(seq) + SeqSum(Tail(seq))

\* what the loop over flatten_moras pushes to phoneme_length_list
RECURSIVE MoraLengths(_)
MoraLengths(moras) ==
    IF moras = <<>> THEN <<>>
    ELSE Head(moras).consonant_length \o <<Head(moras).vowel_length>>
           \o MoraLengths(Tail(moras))

\* f0_list after the loop over flatten_moras: pitch * 2^pitch_scale a mora,
\* between the two 0. of the silences
ScaledPitches(moras, pitch_scale) ==
    <<0>> \o [k \in 1..Len(moras) |-> moras[k].pitch * Pow2(pitch_scale)] \o <<0>>

\* voiced_list: bigger_than_zero of every entry, false for the silences
VoicedList(f0_scaled) ==
    [k \in 1..Len(f0_scaled) |-> k \notin {1, Len(f0_scaled)} /\ f0_scaled[k] > 0]

\* the intonation step applied to every entry, voiced or not
IntonationScaled_EveryEntry(f0_scaled, voiced_list, intonation_scale) ==
    LET voiced == { k \in 1..Len(f0_scaled) : voiced_list[k] }
        sum_of_f0_bigger_than_zero ==
            SeqSum([k \in 1..Len(f0_scaled) |-> IF k \in voiced THEN f0_scaled[k] ELSE 0])
        count_of_f0_bigger_than_zero == Cardinality(voiced)
    IN  IF count_of_f0_bigger_than_zero = 0
        THEN [k \in 1..Len(f0_scaled) |-> Frac(f0_scaled[k], 1)]
        ELSE [k \in 1..Len(f0_scaled) |->
                Frac((f0_scaled[k] * count_of_f0_bigger_than_zero
                        - sum_of_f0_bigger_than_zero) * intonation_scale
                       + sum_of_f0_bigger_than_zero,
                     count_of_f0_bigger_than_zero)]

\* mean_f0 = sum / count is NaN exactly when count is 0 (0. / 0.); otherwise
\* every voiced entry becomes (f0 - mean_f0) * intonation_scale + mean_f0
IntonationScaled(f0_scaled, voiced_list, intonation_scale) ==
    LET voiced == { k \in 1..Len(f0_scaled) : voiced_list[k] }
        sum_of_f0_bigger_than_zero ==
            SeqSum([k \in 1..Len(f0_scaled) |-> IF k \in voiced THEN f0_scaled[k] ELSE 0])
        count_of_f0_bigger_than_zero == Cardinality(voiced)
    IN  IF count_of_f0_bigger_than_zero = 0
        THEN [k \in 1..Len(f0_scaled) |-> Frac(f0_scaled[k], 1)]
        ELSE [k \in 1..Len(f0_scaled) |->
                IF voiced_list[k]
                THEN Frac((f0_scaled[k] * count_of_f0_bigger_than_zero
                             - sum_of_f0_bigger_than_zero) * intonation_scale
                            + sum_of_f0_bigger_than_zero,
                          count_of_f0_bigger_than_zero)
                ELSE Frac(f0_scaled[k], 1)]

\* FrameCount that rounds down
FrameCount_RoundedDown(phoneme_length, speed_scale) ==
    IF phoneme_length <= 0 THEN 0
    ELSE (phoneme_length * 24000) \div (256 * 1000 * speed_scale)

\* (phoneme_length * RATE / speed_scale).ceil() as usize with RATE = 24000 / 256
\* frames a second and phoneme_length in 0.001 s; the cast takes what is
\* below zero to 0
FrameCount(phoneme_length, speed_scale) ==
    IF phoneme_length <= 0 THEN 0
    ELSE (phoneme_length * 24000 + 256 * 1000 * speed_scale - 1)
            \div (256 * 1000 * speed_scale)

Repeat(x, n) == [k \in 1..n |-> x]

NoFrames ==
    [phoneme |-> <<>>, f0 |-> <<>>, sum_of_phoneme_length |-> 0,
     count_of_f0 |-> 0, vowel_indexes_index |-> 0]

\* the loop over phoneme_length_list from i on (0-based), with its locals in at
RECURSIVE ExpandFrames(_, _, _)
ExpandFrames(in, i, at) ==
    IF i >= Len(in.phoneme_length_list) THEN Ok(at)
    ELSE IF i >= Len(in.phoneme_data_list) THEN Fail("Panic", NoFrames)
    ELSE IF /\ OjtPhoneme_phoneme_id(in.phoneme_data_list[i + 1]) < 0
            /\ FrameCount(in.phoneme_length_list[i + 1], in.speed_scale) > 0
    THEN Fail("Panic", NoFrames)
    ELSE IF at.vowel_indexes_index >= Len(in.vowel_indexes) THEN Fail("Panic", NoFrames)
    ELSE IF in.vowel_indexes[at.vowel_indexes_index + 1] # i
    THEN ExpandFrames(in, i + 1,
            [at EXCEPT
               !.phoneme = @ \o Repeat(OjtPhoneme_phoneme_id(in.phoneme_data_list[i + 1]),
                                       FrameCount(in.phoneme_length_list[i + 1], in.speed_scale)),
               !.sum_of_phoneme_length =
                   @ + FrameCount(in.phoneme_length_list[i + 1], in.speed_scale)])
    ELSE IF /\ at.count_of_f0 >= Len(in.f0_list)
            /\ at.sum_of_phoneme_length
                  + FrameCount(in.phoneme_length_list[i + 1], in.speed_scale) > 0
    THEN Fail("Panic", NoFrames)
    ELSE ExpandFrames(in, i + 1,
            [phoneme |->
                 at.phoneme \o Repeat(OjtPhoneme_phoneme_id(in.phoneme_data_list[i + 1]),
                                      FrameCount(in.phoneme_length_list[i + 1], in.speed_scale)),
             f0 |->
                 at.f0 \o Repeat(in.f0_list[at.count_of_f0 + 1],
                                 at.sum_of_phoneme_length
                                   + FrameCount(in.phoneme_length_list[i + 1], in.speed_scale)),
             sum_of_phoneme_length |-> 0,
             count_of_f0 |-> at.count_of_f0 + 1,
             vowel_indexes_index |-> at.vowel_indexes_index + 1])

(***************************************************************************)
(* Inputs                                                                  *)
(***************************************************************************)

Ph(p3, a2, f1, f2, f3, f5, i3) ==
    [p3 |-> p3, a2 |-> a2, a3 |-> "1", f1 |-> f1, f2 |-> f2, f3 |-> f3,
     f5 |-> f5, h1 |-> "1", i3 |-> i3, j1 |-> "1"]

\* phonemes handed to AccentPhrase::from_phonemes in the AccentPhrase specification
RunPool ==
    { Ph("k", "1", "2", "1", "0", "1", "1"),
      Ph("a", "1", "2", "1", "0", "1", "1"),
      Ph("i", "2", "2", "0", "1", "1", "1"),
      Ph("N", "2", "2", "5", "0", "1", "1"),
      Ph("o", "49", "2", "1", "0", "1", "1"),
      Ph("u", "3", "2", "2", "1", "1", "1"),
      Ph("e", "3", "2", "xx", "0", "1", "1") }

\* a label string, as the token sequence of the fields the regexes look at:
\*   -p3+ /A: a1 +a2+a3/B: /F:f1_f2#f3_f4@f5_ /H:h1_ /I: @i3+ /J:j1_
MkLabel(ph) ==
    <<"-", ph.p3, "+", "/A:", "xx", "+", ph.a2, "+", ph.a3, "/B:",
      "/F:", ph.f1, "_", ph.f2, "#", ph.f3, "_", "xx", "@", ph.f5, "_",
      "/H:", ph.h1, "_", "/I:", "@", ph.i3, "+", "/J:", ph.j1, "_">>

\* a label cut off in front of its /J: field
CutLabel(ph) == SubSeq(MkLabel(ph), 1, Len(MkLabel(ph)) - 3)

PauseLabel == MkLabel(Ph("pau", "xx", "xx", "xx", "xx", "xx", "xx"))

\* labels of the label-level specification
LabelPool ==
    { MkLabel(Ph("k", "1", "2", "1", "0", "1", "1")),
      MkLabel(Ph("a", "1", "2", "1", "0", "1", "1")),
      MkLabel(Ph("N", "2", "2", "1", "1", "1", "1")),
      MkLabel(Ph("i", "1", "1", "0", "0", "2", "1")),
      MkLabel(Ph("U", "1", "1", "3", "1", "1", "2")),
      MkLabel(Ph("o", "49", "2", "1", "0", "1", "1")),
      PauseLabel,
      CutLabel(Ph("e", "1", "2", "1", "0", "1", "1")) }

\* nothing sent to a numeric service yet: the requests (as phoneme symbols) and
\* the answers
NoService ==
    [phoneme_list |-> <<>>, phoneme_length |-> <<>>,
     vowel_phoneme_list |-> <<>>, f0 |-> <<>>,
     base_start_accent_list |-> <<>>, base_end_accent_list |-> <<>>,
     base_start_accent_phrase_list |-> <<>>, base_end_accent_phrase_list |-> <<>>,
     decode |-> [length_with_padding |-> 0, f0_with_padding |-> <<>>,
                 phoneme_with_padding |-> <<>>],
     wave_len |-> 0]

\* synthesis not entered yet
NoSynthesis ==
    [enable_interrogative_upspeak |-> FALSE, accent_phrases |-> <<>>,
     phoneme_data_list |-> <<>>,
     speed_scale |-> 1, pitch_scale |-> 0, intonation_scale |-> 1,
     pre_phoneme_length |-> 0, post_phoneme_length |-> 0,
     phoneme_length_list |-> <<>>, f0_scaled |-> <<>>, f0_list |-> <<>>,
     phoneme |-> <<>>, f0 |-> <<>>, wave |-> Wave(0, 0)]

NotCalled ==
    /\ ap_in = <<>>
    /\ ap_out = [res |-> "none", val |-> NoAccentPhrase]

Fresh ==
    /\ pc = "start"
    /\ outcome = "none"
    /\ utterance = [breath_groups |-> <<>>]
    /\ accent_phrases = <<>>
    /\ svc = NoService
    /\ synth = NoSynthesis

InitBuild ==
    /\ labels \in UNION { [1..n -> LabelPool] : n \in 0..MaxLabels }
    /\ Fresh
    /\ NotCalled

\* main binds the result of a stage, or returns its error
Bind(r, next_pc) ==
    /\ outcome' = r.res
    /\ accent_phrases' = r.val
    /\ pc' = IF r.res = "Ok" THEN next_pc ELSE "exit"

Created(r) ==
    /\ Bind(r, "created")
    /\ utterance' = r.utterance

\* main: let accent_phrases = synthesis_engine::create_accent_phrases(labels)?
CreateAccentPhrases ==
    /\ pc = "start"
    /\ Created(create_accent_phrases(labels))
    /\ UNCHANGED <<ap_in, ap_out, labels, svc, synth>>

SpecBuild == InitBuild /\ [][CreateAccentPhrases]_vars

(***************************************************************************)
(* The pipeline of main on the labels of a text front end                  *)
(***************************************************************************)

\* the numeral of a small number
NumStr(n) == CHOOSE t \in DOMAIN NumeralValue : NumeralValue[t] = n

\* accent phrases the front end may describe: moras as <<consonant, vowel>>
\* (consonant "" for none), the accent type f2 and the interrogative mark f3
Shapes ==
    { [moras |-> <<<<"k", "a">>, <<"", "N">>>>, f2 |-> "1", f3 |-> "0"],
      [moras |-> <<<<"", "a">>>>, f2 |-> "3", f3 |-> "1"],
      [moras |-> <<<<"s", "U">>, <<"k", "i">>>>, f2 |-> "2", f3 |-> "1"],
      [moras |-> <<<<"k", "o">>, <<"", "cl">>>>, f2 |-> "0", f3 |-> "1"] }

\* a text: its accent phrases, each with whether a pause precedes it
Plans ==
    { plan \in UNION { [1..n -> [shape : Shapes, pause : BOOLEAN]] : n \in 1..MaxPhrases } :
        ~plan[1].pause }

\* breath group (i3) and place in the breath group (f5) of phrase k of a plan
RECURSIVE GroupOf(_, _)
GroupOf(plan, k) ==
    IF k = 1 THEN 1
    ELSE GroupOf(plan, k - 1) + (IF plan[k].pause THEN 1 ELSE 0)

RECURSIVE PlaceOf(_, _)
PlaceOf(plan, k) ==
    IF k = 1 \/ plan[k].pause THEN 1 ELSE PlaceOf(plan, k - 1) + 1

RECURSIVE MoraLabels(_, _, _, _)
MoraLabels(shape, m, f5, i3) ==
    IF m > Len(shape.moras) THEN <<>>
    ELSE
      LET L(sym) == MkLabel(Ph(sym, NumStr(m), NumStr(Len(shape.moras)),
                               shape.f2, shape.f3, f5, i3))
      IN  (IF shape.moras[m][1] # "" THEN <<L(shape.moras[m][1])>> ELSE <<>>)
            \o <<L(shape.moras[m][2])>>
            \o MoraLabels(shape, m + 1, f5, i3)

RECURSIVE PlanLabels(_, _)
PlanLabels(plan, k) ==
    IF k > Len(plan) THEN <<>>
    ELSE (IF plan[k].pause THEN <<PauseLabel>> ELSE <<>>)
           \o MoraLabels(plan[k].shape, 1, NumStr(PlaceOf(plan, k)), NumStr(GroupOf(plan, k)))
           \o PlanLabels(plan, k + 1)

SilLabel == MkLabel(Ph("sil", "xx", "xx", "xx", "xx", "xx", "xx"))

FrontEndLabels(plan) == <<SilLabel>> \o PlanLabels(plan, 1) \o <<SilLabel>>

Init ==
    /\ labels \in { FrontEndLabels(plan) : plan \in Plans }
    /\ Fresh
    /\ NotCalled

\* outputs of a numeric service for n positions: the values in rotation
Rotations(values, n) ==
    { [k \in 1..n |-> values[((off + k) % Len(values)) + 1]] : off \in 1..Len(values) }

DurationValues == <<-5, 10, 55>>
PitchValues == <<-100, 0, 480, 630>>

\* a numeric service fails: the stage returns the error
ServiceFails ==
    /\ outcome' = "ServiceError"
    /\ pc' = "exit"
    /\ accent_phrases' = <<>>
    /\ UNCHANGED svc

\* predict_duration is sent the flat phoneme list and answers per position
DurationCall(phoneme_list) ==
    \E output \in Rotations(DurationValues, Len(phoneme_list)) :
        /\ svc' = [svc EXCEPT !.phoneme_list = phoneme_list, !.phoneme_length = output]
        /\ Bind(replace_phoneme_length(accent_phrases, output), "length")

\* main: replace_phoneme_length(predict_duration, accent_phrases, 0)?
ReplacePhonemeLength ==
    /\ pc = "created"
    /\ \/ DurationCall(initial_process(accent_phrases).phoneme_data_list)
       \/ ServiceFails
    /\ UNCHANGED <<ap_in, ap_out, labels, utterance, synth>>

\* predict_intonation is sent the vowel phoneme list and answers per vowel slot
IntonationCall(vowel_phoneme_list) ==
    \E output \in Rotations(PitchValues, Len(vowel_phoneme_list)) :
        /\ svc' = [svc EXCEPT
                     !.vowel_phoneme_list = vowel_phoneme_list,
                     !.base_start_accent_list = base_start_accent_list(accent_phrases),
                     !.base_end_accent_list = base_end_accent_list(accent_phrases),
                     !.base_start_accent_phrase_list =
                         base_start_accent_phrase_list(accent_phrases),
                     !.base_end_accent_phrase_list =
                         base_end_accent_phrase_list(accent_phrases),
                     !.f0 = output]
        /\ Bind(replace_mora_pitch(accent_phrases, output), "pitch")

\* main: replace_mora_pitch(predict_intonation, accent_phrases, 0)?
ReplaceMoraPitch ==
    /\ pc = "length"
    /\ \/ IntonationCall(
              split_mora(initial_process(accent_phrases).phoneme_data_list).vowel_phoneme_list)
       \/ ServiceFails
    /\ UNCHANGED <<ap_in, ap_out, labels, utterance, synth>>

\* decode returns to its caller
DecodeReturns(locals, r) ==
    /\ outcome' = r.res
    /\ synth' = [locals EXCEPT !.wave = r.val]

\* decode(session, f0.len(), num_phoneme, f0, flatten_phoneme, speaker_id), the
\* service answering with one of wave_lens samples
DecodeCall(locals, wave_lens) ==
    \E wave_len \in wave_lens :
        /\ svc' = [svc EXCEPT
                     !.decode = DecodeRequest(Len(locals.f0), locals.f0, locals.phoneme),
                     !.wave_len = wave_len]
        /\ DecodeReturns(locals, decode(Len(locals.f0), locals.f0, locals.phoneme, wave_len))

\* what synthesis is called with: main's arguments, and another setting
SynthesisArguments ==
    { [speed_scale |-> 1, pitch_scale |-> 0, intonation_scale |-> 1,
       pre_phoneme_length |-> 100, post_phoneme_length |-> 100,
       enable_interrogative_upspeak |-> TRUE],
      [speed_scale |-> 2, pitch_scale |-> 1, intonation_scale |-> 2,
       pre_phoneme_length |-> 100, post_phoneme_length |-> 55,
       enable_interrogative_upspeak |-> FALSE] }

\* the locals of synthesis when the loop over flatten_moras is done
SynthesisLocals(args, aps) ==
    [enable_interrogative_upspeak |-> args.enable_interrogative_upspeak,
     accent_phrases |-> aps,
     phoneme_data_list |-> initial_process(aps).phoneme_data_list,
     speed_scale |-> args.speed_scale,
     pitch_scale |-> args.pitch_scale,
     intonation_scale |-> args.intonation_scale,
     pre_phoneme_length |-> args.pre_phoneme_length,
     post_phoneme_length |-> args.post_phoneme_length,
     phoneme_length_list |->
         <<args.pre_phoneme_length>> \o MoraLengths(FlattenMoras(aps))
             \o <<args.post_phoneme_length>>,
     f0_scaled |-> ScaledPitches(FlattenMoras(aps), args.pitch_scale),
     f0_list |-> <<>>, phoneme |-> <<>>, f0 |-> <<>>, wave |-> Wave(0, 0)]

\* ... and after the intonation step
Intonated(locals) ==
    [locals EXCEPT !.f0_list = IntonationScaled(locals.f0_scaled,
                                                VoicedList(locals.f0_scaled),
                                                locals.intonation_scale)]

\* the frame-rate expansion of synthesis
Framed(locals, vowel_indexes) ==
    ExpandFrames([phoneme_length_list |-> locals.phoneme_length_list,
                  phoneme_data_list |-> locals.phoneme_data_list,
                  vowel_indexes |-> vowel_indexes,
                  f0_list |-> locals.f0_list,
                  speed_scale |-> locals.speed_scale], 0, NoFrames)

\* synthesis from its frame-rate expansion on: decode-0.onnx answers with 256
\* samples a row
SynthesisDecodes(locals, frames) ==
    IF frames.res # "Ok"
    THEN /\ synth' = locals
         /\ outcome' = frames.res
         /\ UNCHANGED svc
    ELSE DecodeCall([locals EXCEPT !.phoneme = frames.val.phoneme, !.f0 = frames.val.f0],
                    { 256 * (Len(frames.val.f0) + 2 * padding_size) })

Synthesized(locals) ==
    SynthesisDecodes(locals,
        Framed(locals, split_mora(locals.phoneme_data_list).vowel_indexes))

\* main: synthesis(decode, accent_phrases, 1., 0., 1., 0.1, 0.1, true, 0)?
Synthesis ==
    /\ pc = "pitch"
    /\ \/ /\ \E args \in SynthesisArguments :
                Synthesized(Intonated(SynthesisLocals(args,
                    IF args.enable_interrogative_upspeak
                    THEN adjust_interrogative_accent_phrases(accent_phrases)
                    ELSE accent_phrases)))
          /\ pc' = IF outcome' = "Ok" THEN "synthesized" ELSE "exit"
          /\ UNCHANGED accent_phrases
       \/ /\ ServiceFails
          /\ UNCHANGED synth
    /\ UNCHANGED <<ap_in, ap_out, labels, utterance>>

Next ==
    \/ CreateAccentPhrases
    \/ ReplacePhonemeLength
    \/ ReplaceMoraPitch
    \/ Synthesis

Spec == Init /\ [][Next]_vars

\* the pipeline is not part of the AccentPhrase specification
Idle ==
    /\ labels = <<>>
    /\ pc = "idle"
    /\ outcome = "none"
    /\ utterance = [breath_groups |-> <<>>]
    /\ accent_phrases = <<>>
    /\ svc = NoService
    /\ synth = NoSynthesis

InitAccentPhrase ==
    /\ ap_in \in UNION { [1..n -> RunPool] : n \in 1..MaxRun }
    /\ ap_out = [res |-> "none", val |-> NoAccentPhrase]
    /\ Idle

CallAccentPhrase ==
    /\ ap_out.res = "none"
    /\ ap_out' = AccentPhrase_from_phonemes(ap_in)
    /\ UNCHANGED <<ap_in, labels, pc, outcome, utterance, accent_phrases, svc, synth>>

SpecAccentPhrase == InitAccentPhrase /\ [][CallAccentPhrase]_vars

(***************************************************************************)
(* decode on its own                                                       *)
(***************************************************************************)

MaxFrames == 3

\* decode's arguments: a pitch curve and a phoneme matrix of the same number
\* of frames
InitDecode ==
    /\ labels = <<>>
    /\ pc = "decode"
    /\ outcome = "none"
    /\ utterance = [breath_groups |-> <<>>]
    /\ accent_phrases = <<>>
    /\ svc = NoService
    /\ \E length \in 0..MaxFrames :
          \E f0 \in [1..length -> {Frac(0, 1), Frac(480, 1)}], phoneme \in [1..length -> {0, 7}] :
              synth = [NoSynthesis EXCEPT !.f0 = f0, !.phoneme = phoneme]
    /\ NotCalled

\* numbers of samples the decode service may answer with for a request of
\* `frames` rows: 256 a row, and answers that are shorter or longer
WaveLengths(frames) ==
    { 0, padding_size * 256 - 1, padding_size * 256, 2 * padding_size * 256 - 1,
      2 * padding_size * 256, 2 * padding_size * 256 + 1,
      256 * frames, 256 * frames + 1 }

Decode ==
    /\ pc = "decode"
    /\ DecodeCall(synth, WaveLengths(Len(synth.f0) + 2 * padding_size))
    /\ pc' = "decoded"
    /\ UNCHANGED <<ap_in, ap_out, labels, utterance, accent_phrases>>

SpecDecode == InitDecode /\ [][Decode]_vars


(***************************************************************************)
(* Claims about AccentPhrase::from_phonemes (SpecAccentPhrase)             *)
(***************************************************************************)

RECURSIVE Flatten(_)
Flatten(moras) ==
    IF moras = <<>> THEN <<>>
    ELSE Mora_phonemes(Head(moras)) \o Flatten(Tail(moras))

\* 1-based positions of the phonemes whose a2 is the sentinel
SentinelAt(phonemes) == { i \in 1..Len(phonemes) : phonemes[i].a2 = "49" }

\* the phonemes in front of the first sentinel (all of them without one)
BeforeSentinel(phonemes) ==
    IF SentinelAt(phonemes) = {} THEN phonemes
    ELSE SubSeq(phonemes, 1, Min(SentinelAt(phonemes)) - 1)

\* C1: every AccentPhrase that from_phonemes returns has
\* 1 <= accent <= len(moras), whatever the first mora's f2 parses to.
C1_AccentInRange ==
    ap_out.res = "Ok" =>
        /\ 1 <= ap_out.val.accent
        /\ ap_out.val.accent <= Len(ap_out.val.moras)

\* C3: a phoneme with a2 = "49" ends segmentation without an error, wherever
\* the first one sits: from_phonemes does not abort, and what it returns
\* holds exactly the phonemes in front of that phoneme.
C3_SentinelIsNotAnError ==
    (ap_out.res # "none" /\ SentinelAt(ap_in) # {}) =>
        /\ ap_out.res # "Panic"
        /\ ap_out.res = "Ok" => Flatten(ap_out.val.moras) = BeforeSentinel(ap_in)

\* end positions, in the input, of the moras of a mora list
RECURSIVE MoraEnds(_, _)
MoraEnds(moras, base) ==
    IF moras = <<>> THEN {}
    ELSE LET e == base + Len(Mora_phonemes(Head(moras)))
         IN  {e} \cup MoraEnds(Tail(moras), e)

\* positions after which the rule of the claim puts a boundary
BoundaryAfter(phonemes) ==
    { j \in 1..Len(BeforeSentinel(phonemes)) :
        j = Len(phonemes) \/ phonemes[j].a2 # phonemes[j + 1].a2 }

\* three phonemes in a row with one a2 value, in front of the sentinel
HasLongGroup(phonemes) ==
    \E j \in 1..(Len(BeforeSentinel(phonemes)) - 2) :
        /\ phonemes[j].a2 = phonemes[j + 1].a2
        /\ phonemes[j].a2 = phonemes[j + 2].a2

\* C4: among the phonemes that are segmented (those in front of the first
\* a2 = "49"), a mora ends exactly after each phoneme that is last or whose
\* a2 differs from the next one's; the moras hold the phonemes in input order,
\* one as vowel or two as consonant and vowel; a group of three or more makes
\* from_phonemes fail with TooLongMora.
C4_MoraBoundaries ==
    ap_out.res # "none" =>
        /\ HasLongGroup(ap_in) <=> ap_out.res = "TooLongMora"
        /\ ap_out.res = "Ok" =>
             /\ Flatten(ap_out.val.moras) = BeforeSentinel(ap_in)
             /\ MoraEnds(ap_out.val.moras, 0) = BoundaryAfter(ap_in)
             /\ \A m \in 1..Len(ap_out.val.moras) :
                    Len(Mora_phonemes(ap_out.val.moras[m])) \in {1, 2}

C4_Witness ==
    /\ ap_out.res = "Ok"
    /\ Len(ap_out.val.moras) >= 2
    /\ \E m \in 1..Len(ap_out.val.moras) : ap_out.val.moras[m].consonant # None
    /\ \E m \in 1..Len(ap_out.val.moras) : ap_out.val.moras[m].consonant = None

(***************************************************************************)
(* Claims about create_accent_phrases on arbitrary labels (SpecBuild)      *)
(***************************************************************************)

\* a label in which the delimiters of some required field do not occur
LacksAField(label) ==
    \E k \in 1..Len(FieldRegexes) : MatchesAt(FieldRegexes[k].re, label) = {}

\* C2: when a label lacks the delimiters of a required field,
\* create_accent_phrases returns the LabelParse error to its caller and
\* produces no AccentPhraseModel.
C2_LabelParseIsReturned ==
    (pc # "start" /\ \E k \in 1..Len(labels) : LacksAField(labels[k])) =>
        /\ outcome = "LabelParse"
        /\ accent_phrases = <<>>

\* the phonemes of the labels, once all of them have parsed
PhonemesOf(ls) == [k \in 1..Len(ls) |-> Phoneme_from_label(ls[k]).val]

\* positions a..b are a maximal non-empty run of non-pause phonemes
IsMaximalRun(ps, a, b) ==
    /\ a <= b
    /\ \A i \in a..b : ~is_pause(ps[i])
    /\ a = 1 \/ is_pause(ps[a - 1])
    /\ b = Len(ps) \/ is_pause(ps[b + 1])

RunStarts(ps) ==
    { a \in 1..Len(ps) : \E b \in a..Len(ps) : IsMaximalRun(ps, a, b) }

RunFrom(ps, a) == SubSeq(ps, a, CHOOSE b \in a..Len(ps) : IsMaximalRun(ps, a, b))

\* C5: the utterance holds, in input order, one BreathGroup for every maximal
\* non-empty run of non-pause phonemes, built from exactly the phonemes of
\* that run, also for a run that ends the input without a pause after it.
C5_OneGroupPerRun ==
    (pc = "created" /\ outcome = "Ok") =>
        /\ Len(utterance.breath_groups) = Cardinality(RunStarts(PhonemesOf(labels)))
        /\ \A k \in 1..Len(utterance.breath_groups) :
              k <= Cardinality(RunStarts(PhonemesOf(labels))) =>
                 utterance.breath_groups[k] =
                    BreathGroup_from_phonemes(
                        RunFrom(PhonemesOf(labels),
                                Sorted(RunStarts(PhonemesOf(labels)))[k])).val

(***************************************************************************)
(* Claims about the pipeline (Spec)                                        *)
(***************************************************************************)

\* the sum of f[x] over the x in S
RECURSIVE SumOver(_, _)
SumOver(S, f) ==
    IF S = {} THEN 0
    ELSE LET x == CHOOSE y \in S : TRUE
         IN  f[x] + SumOver(S \ {x}, f)

\* number of accent phrases in the breath groups in front of group i (1-based)
PhrasesBefore(utt, i) ==
    SumOver(1..(i - 1), [g \in 1..(i - 1) |-> Len(utt.breath_groups[g].accent_phrases)])

\* the model is the one of mora
IsModelOf(model, mora) ==
    /\ model.vowel = mora.vowel.p3
    /\ model.consonant = IF mora.consonant = None THEN None
                         ELSE Some(mora.consonant[1].p3)

\* C6: an AccentPhraseModel has the pause mora (text ideographic comma, vowel
\* "pau", no consonant, length 0, pitch 0) exactly when its phrase is the last
\* one of its breath group and that group is not the last one of the
\* utterance; the models are in document order, one MoraModel per Mora.
C6_PauseMoraPlacement ==
    (pc = "created" /\ outcome = "Ok") =>
        /\ Len(accent_phrases) = PhrasesBefore(utterance, Len(utterance.breath_groups) + 1)
        /\ \A i \in 1..Len(utterance.breath_groups) :
           \A j \in 1..Len(utterance.breath_groups[i].accent_phrases) :
              LET phrase == utterance.breath_groups[i].accent_phrases[j]
                  model == accent_phrases[PhrasesBefore(utterance, i) + j]
                  closes == /\ j = Len(utterance.breath_groups[i].accent_phrases)
                            /\ i # Len(utterance.breath_groups)
              IN  /\ Len(model.moras) = Len(phrase.moras)
                  /\ \A m \in 1..Len(phrase.moras) :
                        IsModelOf(model.moras[m], phrase.moras[m])
                  /\ model.accent = phrase.accent
                  /\ closes => model.pause_mora =
                        Some([text |-> <<"U+3001">>, consonant |-> None,
                              consonant_length |-> None, vowel |-> "pau",
                              vowel_length |-> 0, pitch |-> 0])
                  /\ ~closes => model.pause_mora = None

C6_Witness ==
    /\ pc = "created"
    /\ outcome = "Ok"
    /\ Len(utterance.breath_groups) >= 2
    /\ Len(utterance.breath_groups[1].accent_phrases) >= 2
    /\ accent_phrases[1].pause_mora = None
    /\ accent_phrases[2].pause_mora # None
    /\ accent_phrases[Len(accent_phrases)].pause_mora = None

\* the moras of an accent phrase model and then its pause mora, by number
SlotsOf(ap) == 1..(Len(ap.moras) + Len(ap.pause_mora))
SlotMora(ap, n) == IF n <= Len(ap.moras) THEN ap.moras[n] ELSE ap.pause_mora[1]

\* <<p, n>> for every mora (pause moras included) of a model sequence
Addresses(aps) == { a \in (1..Len(aps)) \X (1..10) : a[2] \in SlotsOf(aps[a[1]]) }
MoraAtAddr(aps, a) == SlotMora(aps[a[1]], a[2])
Precedes(a, b) == a[1] < b[1] \/ (a[1] = b[1] /\ a[2] < b[2])

\* phonemes of a mora model
SizeOf(mora) == (IF mora.consonant # None THEN 1 ELSE 0) + 1

\* 1-based position in the flat phoneme sequence of the vowel of the mora at a
VowelPosition(aps, a) ==
    1 + SumOver({ b \in Addresses(aps) : Precedes(b, a) },
                [b \in Addresses(aps) |-> SizeOf(MoraAtAddr(aps, b))])
      + SizeOf(MoraAtAddr(aps, a))

\* flat is the flat phoneme sequence of aps as the claim describes it
IsFlatSequenceOf(flat, aps) ==
    /\ Len(flat) = 2 + SumOver(Addresses(aps),
                               [b \in Addresses(aps) |-> SizeOf(MoraAtAddr(aps, b))])
    /\ flat[1] = "pau"
    /\ flat[Len(flat)] = "pau"
    /\ \A a \in Addresses(aps) :
          /\ flat[VowelPosition(aps, a)] = MoraAtAddr(aps, a).vowel
          /\ MoraAtAddr(aps, a).consonant # None =>
                flat[VowelPosition(aps, a) - 1] = MoraAtAddr(aps, a).consonant[1]

\* C7: the flat phoneme sequence of initial_process starts and ends with the
\* pause symbol, has length 2 + the sum over all moras (pause moras included)
\* of (1 if the mora has a consonant) + 1, and holds every mora's consonant
\* right before its vowel, moras in order, a phrase's pause mora after its
\* moras.  Checked on the sequence sent to the duration service and on the
\* one synthesis builds.
C7_FlatPhonemeSequence ==
    /\ pc \in {"length", "pitch", "synthesized"} =>
          IsFlatSequenceOf(svc.phoneme_list, accent_phrases)
    /\ pc = "synthesized" =>
          IsFlatSequenceOf(synth.phoneme_data_list, synth.accent_phrases)

C7_Witness ==
    /\ pc = "synthesized"
    /\ Len(synth.phoneme_data_list) > Len(svc.phoneme_list)
    /\ \E p \in 1..Len(accent_phrases) : accent_phrases[p].pause_mora # None
    /\ \E a \in Addresses(accent_phrases) :
          MoraAtAddr(accent_phrases, a).consonant # None

\* the vowel slot of a flat position: how many mora phonemes stand at or in
\* front of it (slot 1 is the leading pause)
VowelSlot(flat, pos) ==
    Cardinality({ q \in 1..pos : Contains(MORA_PHONEME_LIST, flat[q]) })

\* C8: after replace_mora_pitch every mora (pause moras included) whose vowel
\* is one of A I U E O cl pau has pitch 0, and every other mora has the value
\* the pitch service returned for the slot of that mora's own vowel.
C8_UnvoicedPitchIsZero ==
    pc \in {"pitch", "synthesized"} =>
        \A a \in Addresses(accent_phrases) :
            LET mora == MoraAtAddr(accent_phrases, a)
            IN  IF mora.vowel \in {"A", "I", "U", "E", "O", "cl", "pau"}
                THEN mora.pitch = 0
                ELSE mora.pitch =
                       svc.f0[VowelSlot(svc.phoneme_list,
                                        VowelPosition(accent_phrases, a))]

C8_Witness ==
    /\ pc = "pitch"
    /\ \E a \in Addresses(accent_phrases) :
          /\ MoraAtAddr(accent_phrases, a).vowel = "U"
          /\ svc.f0[VowelSlot(svc.phoneme_list, VowelPosition(accent_phrases, a))] # 0
    /\ \E a \in Addresses(accent_phrases) :
          /\ MoraAtAddr(accent_phrases, a).vowel = "pau"
          /\ svc.f0[VowelSlot(svc.phoneme_list, VowelPosition(accent_phrases, a))] # 0
    /\ \E a \in Addresses(accent_phrases) : MoraAtAddr(accent_phrases, a).pitch # 0

\* C9: after replace_phoneme_length no length of any MoraModel is below the
\* minimum of 0.01 s: the vowel length of every mora and pause mora, and the
\* consonant length of every mora with a consonant.
C9_DurationFloor ==
    pc \in {"length", "pitch", "synthesized"} =>
        \A a \in Addresses(accent_phrases) :
            LET mora == MoraAtAddr(accent_phrases, a)
            IN  /\ mora.vowel_length >= 10
                /\ mora.consonant # None =>
                      /\ mora.consonant_length # None
                      /\ mora.consonant_length[1] >= 10

C9_Witness ==
    /\ pc = "length"
    /\ \E a \in Addresses(accent_phrases) :
          /\ svc.phoneme_length[VowelPosition(accent_phrases, a)] < 10
          /\ MoraAtAddr(accent_phrases, a).vowel_length = 10
    /\ \E a \in Addresses(accent_phrases) :
          /\ MoraAtAddr(accent_phrases, a).consonant # None
          /\ svc.phoneme_length[VowelPosition(accent_phrases, a) - 1] < 10
    /\ \E a \in Addresses(accent_phrases) : MoraAtAddr(accent_phrases, a).vowel_length > 10

\* the smaller of two numbers
Least(x, y) == IF x <= y THEN x ELSE y

\* the phrase gets the extra mora
Rises(ap) ==
    /\ synth.enable_interrogative_upspeak
    /\ ap.is_interrogative
    /\ ap.moras[Len(ap.moras)].pitch # 0

\* C10: with upspeak enabled, an interrogative accent phrase whose last mora
\* has pitch p # 0 gets one mora appended: no consonant, the last mora's
\* vowel, length 0.15, pitch min(p + 0.3, 6.5).  Every other phrase keeps its
\* moras; accent, pause mora and flag never change.
C10_InterrogativeMora ==
    pc = "synthesized" =>
        /\ Len(synth.accent_phrases) = Len(accent_phrases)
        /\ \A p \in 1..Len(accent_phrases) :
              LET old == accent_phrases[p]
                  new == synth.accent_phrases[p]
                  last == old.moras[Len(old.moras)]
              IN  /\ new.accent = old.accent
                  /\ new.pause_mora = old.pause_mora
                  /\ new.is_interrogative = old.is_interrogative
                  /\ Rises(old) =>
                        /\ Len(new.moras) = Len(old.moras) + 1
                        /\ SubSeq(new.moras, 1, Len(old.moras)) = old.moras
                        /\ new.moras[Len(new.moras)].consonant = None
                        /\ new.moras[Len(new.moras)].consonant_length = None
                        /\ new.moras[Len(new.moras)].vowel = last.vowel
                        /\ new.moras[Len(new.moras)].vowel_length = 150
                        /\ new.moras[Len(new.moras)].pitch = Least(last.pitch + 30, 650)
                  /\ ~Rises(old) => new.moras = old.moras

C10_Witness ==
    /\ pc = "synthesized"
    /\ \E p \in 1..Len(accent_phrases) :
          /\ Rises(accent_phrases[p])
          /\ synth.accent_phrases[p].moras[Len(synth.accent_phrases[p].moras)].pitch = 650
    /\ \E p \in 1..Len(accent_phrases) :
          /\ Rises(accent_phrases[p])
          /\ synth.accent_phrases[p].moras[Len(synth.accent_phrases[p].moras)].pitch < 650
    /\ \E p \in 1..Len(accent_phrases) :
          /\ accent_phrases[p].is_interrogative
          /\ accent_phrases[p].moras[Len(accent_phrases[p].moras)].pitch = 0


(***************************************************************************)
(* Claims about decode (SpecDecode)                                        *)
(***************************************************************************)

\* number of samples trimmed from each end
PaddingSamples == padding_size * 256

\* the padded arrays hold padding_size rows of padding, the arguments, and
\* padding_size rows of padding again
PaddedOnBothSides ==
    /\ Len(svc.decode.f0_with_padding) = Len(synth.f0) + 2 * padding_size
    /\ Len(svc.decode.phoneme_with_padding) = Len(synth.phoneme) + 2 * padding_size
    /\ \A k \in 1..Len(synth.f0) :
          /\ svc.decode.f0_with_padding[padding_size + k] = synth.f0[k]
          /\ svc.decode.phoneme_with_padding[padding_size + k] = synth.phoneme[k]
    /\ \A k \in (1..padding_size) \cup
                 ((padding_size + Len(synth.f0) + 1)..(Len(synth.f0) + 2 * padding_size)) :
          /\ svc.decode.f0_with_padding[k] = Frac(0, 1)
          /\ svc.decode.phoneme_with_padding[k] = 0

\* the result is the answer without its first and its last PaddingSamples samples
TrimmedBothEnds ==
    /\ outcome = "Ok"
    /\ synth.wave = Wave(PaddingSamples, svc.wave_len - PaddingSamples)
    /\ WaveLen(synth.wave) = svc.wave_len - 2 * PaddingSamples

\* C11: for every decode-service output of length n, the result of decode is
\* the samples at positions paddingFrames*256 .. n - paddingFrames*256 of the
\* output, in order, so it has n - 2*paddingFrames*256 samples, where
\* paddingFrames = round(0.4 * 24000 / 256) is also the number of rows added
\* on each side of both padded arrays.
C11_TrimRemovesPadding ==
    pc = "decoded" =>
        /\ padding_size = 38
        /\ PaddedOnBothSides
        /\ TrimmedBothEnds

\* C11 on the answers that are long enough to hold both paddings
C11_LongEnough ==
    (pc = "decoded" /\ svc.wave_len >= 2 * PaddingSamples) =>
        /\ PaddedOnBothSides
        /\ TrimmedBothEnds

\* C11 fails only by the panic on a short answer
C11_ShortPanics ==
    (pc = "decoded" /\ svc.wave_len < 2 * PaddingSamples) =>
        /\ PaddedOnBothSides
        /\ outcome = "Panic"

(***************************************************************************)
(* Claims about synthesis (Spec)                                           *)
(***************************************************************************)

\* the pitch sequence before the intonation step is 0, every mora's pitch
\* times 2^pitch_scale in flattened order, 0
IsScaledPitchOf(f0_scaled, moras, pitch_scale) ==
    /\ Len(f0_scaled) = Len(moras) + 2
    /\ f0_scaled[1] = 0
    /\ f0_scaled[Len(f0_scaled)] = 0
    /\ \A k \in 1..Len(moras) : f0_scaled[k + 1] = moras[k].pitch * Pow2(pitch_scale)

\* C12: in synthesis the intonation step changes no entry of the pitch
\* sequence that is not strictly positive, whatever the intonation scale; in
\* particular, when every mora's scaled pitch is 0 it changes no entry at all.
C12_IntonationLeavesUnvoiced ==
    pc = "synthesized" =>
        /\ IsScaledPitchOf(synth.f0_scaled, FlattenMoras(synth.accent_phrases),
                           synth.pitch_scale)
        /\ Len(synth.f0_list) = Len(synth.f0_scaled)
        /\ \A k \in 1..Len(synth.f0_scaled) :
              synth.f0_scaled[k] <= 0 =>
                  synth.f0_list[k] = [num |-> synth.f0_scaled[k], den |-> 1]
        /\ (\A k \in 1..Len(synth.f0_scaled) : synth.f0_scaled[k] = 0) =>
              \A k \in 1..Len(synth.f0_list) : synth.f0_list[k] = [num |-> 0, den |-> 1]

\* a fully unvoiced utterance of several moras under an intonation scale that
\* is not 1
C12_Witness ==
    /\ pc = "synthesized"
    /\ synth.intonation_scale = 2
    /\ Len(synth.f0_scaled) >= 4
    /\ \A k \in 1..Len(synth.f0_scaled) : synth.f0_scaled[k] = 0
    /\ synth.f0_list = [k \in 1..Len(synth.f0_scaled) |-> [num |-> 0, den |-> 1]]

\* the intonation step does act: a voiced entry is moved away from the mean
\* next to an unvoiced entry that stays
C12_MixedCase ==
    /\ pc = "synthesized"
    /\ synth.intonation_scale = 2
    /\ \E k \in 1..Len(synth.f0_scaled) :
          /\ synth.f0_scaled[k] > 0
          /\ synth.f0_list[k] # [num |-> synth.f0_scaled[k], den |-> 1]
    /\ \E k \in 2..(Len(synth.f0_scaled) - 1) : synth.f0_scaled[k] < 0
    /\ \E k \in 2..(Len(synth.f0_scaled) - 1) : synth.f0_scaled[k] = 0

(***************************************************************************)
(* Claims about the two assignment stages (Spec)                           *)
(***************************************************************************)

\* the same phrases and moras in the same order, with every mora's text,
\* consonant and vowel, every phrase's accent, is_interrogative flag and
\* presence of a pause mora as before
SameFrame(old, new) ==
    /\ Len(new) = Len(old)
    /\ \A p \in 1..Len(old) :
          /\ new[p].accent = old[p].accent
          /\ new[p].is_interrogative = old[p].is_interrogative
          /\ Len(new[p].moras) = Len(old[p].moras)
          /\ Len(new[p].pause_mora) = Len(old[p].pause_mora)
          /\ \A n \in SlotsOf(old[p]) :
                /\ SlotMora(new[p], n).text = SlotMora(old[p], n).text
                /\ SlotMora(new[p], n).consonant = SlotMora(old[p], n).consonant
                /\ SlotMora(new[p], n).vowel = SlotMora(old[p], n).vowel

SamePitches(old, new) ==
    \A p \in 1..Len(old) : \A n \in SlotsOf(old[p]) :
        SlotMora(new[p], n).pitch = SlotMora(old[p], n).pitch

SameLengths(old, new) ==
    \A p \in 1..Len(old) : \A n \in SlotsOf(old[p]) :
        /\ SlotMora(new[p], n).consonant_length = SlotMora(old[p], n).consonant_length
        /\ SlotMora(new[p], n).vowel_length = SlotMora(old[p], n).vowel_length

\* C13: replace_phoneme_length changes only length fields and
\* replace_mora_pitch changes only pitch fields: the number and order of accent
\* phrases and of moras, every mora's text, consonant and vowel, each phrase's
\* accent, is_interrogative flag and presence of a pause mora stay as they
\* were; replace_phoneme_length leaves every pitch and replace_mora_pitch
\* leaves every consonant and vowel length as it was.
C13_StagesChangeOnlyTheirFields ==
    [][/\ (pc = "created" /\ pc' = "length") =>
             /\ SameFrame(accent_phrases, accent_phrases')
             /\ SamePitches(accent_phrases, accent_phrases')
       /\ (pc = "length" /\ pc' = "pitch") =>
             /\ SameFrame(accent_phrases, accent_phrases')
             /\ SameLengths(accent_phrases, accent_phrases')]_vars

\* both stages have run on several phrases with a pause mora and a consonant,
\* and lengths and pitches have left their initial 0
C13_Witness ==
    /\ pc = "pitch"
    /\ Len(accent_phrases) >= 2
    /\ \E p \in 1..Len(accent_phrases) : accent_phrases[p].pause_mora # None
    /\ \E a \in Addresses(accent_phrases) :
          /\ MoraAtAddr(accent_phrases, a).consonant # None
          /\ MoraAtAddr(accent_phrases, a).consonant_length[1] > 0
          /\ MoraAtAddr(accent_phrases, a).vowel_length > 0
          /\ MoraAtAddr(accent_phrases, a).pitch # 0

\* the duration predict_duration hands on for a service output
Floored(duration) == IF duration < 10 THEN 10 ELSE duration

\* place of the mora at a in flattened order (1 for the first mora)
RankOf(aps, a) == 1 + Cardinality({ b \in Addresses(aps) : Precedes(b, a) })

\* C14: after replace_phoneme_length the k-th mora in flattened order (each
\* phrase's moras, then its pause mora) has as vowel length the duration at
\* the flat-sequence position of its own vowel and, when it has a consonant,
\* as consonant length the duration at the position of its own consonant; the
\* vowel-index entry the k-th mora looks up is the position of its own vowel,
\* the table has (number of moras, pause moras included) + 2 entries and no
\* lookup is out of range.
C14_LengthsOfOwnPhonemes ==
    /\ outcome # "Panic"
    /\ pc = "length" =>
          LET vowel_indexes == split_mora(svc.phoneme_list).vowel_indexes
          IN  /\ Len(vowel_indexes) = Cardinality(Addresses(accent_phrases)) + 2
              /\ Len(svc.phoneme_length) = Len(svc.phoneme_list)
              /\ \A a \in Addresses(accent_phrases) :
                    /\ vowel_indexes[RankOf(accent_phrases, a) + 1] + 1
                          = VowelPosition(accent_phrases, a)
                    /\ svc.phoneme_list[VowelPosition(accent_phrases, a)]
                          = MoraAtAddr(accent_phrases, a).vowel
                    /\ MoraAtAddr(accent_phrases, a).vowel_length
                          = Floored(svc.phoneme_length[VowelPosition(accent_phrases, a)])
                    /\ IF MoraAtAddr(accent_phrases, a).consonant # None
                       THEN /\ svc.phoneme_list[VowelPosition(accent_phrases, a) - 1]
                                 = MoraAtAddr(accent_phrases, a).consonant[1]
                            /\ MoraAtAddr(accent_phrases, a).consonant_length
                                 = Some(Floored(svc.phoneme_length[
                                            VowelPosition(accent_phrases, a) - 1]))
                       ELSE MoraAtAddr(accent_phrases, a).consonant_length = None

\* a pause mora with moras behind it, and a mora whose consonant and vowel
\* got different durations
C14_Witness ==
    /\ pc = "length"
    /\ \E a \in Addresses(accent_phrases), b \in Addresses(accent_phrases) :
          /\ MoraAtAddr(accent_phrases, a).vowel = "pau"
          /\ Precedes(a, b)
          /\ MoraAtAddr(accent_phrases, b).consonant # None
          /\ MoraAtAddr(accent_phrases, b).consonant_length[1]
                # MoraAtAddr(accent_phrases, b).vowel_length
          /\ MoraAtAddr(accent_phrases, a).vowel_length
                # MoraAtAddr(accent_phrases, b).vowel_length

(***************************************************************************)
(* Claims about breath-group assembly (SpecBuild)                          *)
(***************************************************************************)

\* the phonemes an accent phrase was built from and kept
PhrasePhonemes(ap) == Flatten(ap.moras)

RECURSIVE GroupPhonemes(_)
GroupPhonemes(aps) ==
    IF aps = <<>> THEN <<>>
    ELSE PhrasePhonemes(Head(aps)) \o GroupPhonemes(Tail(aps))

SameI3AndF5(phonemes) ==
    \A x \in 1..Len(phonemes), y \in 1..Len(phonemes) :
        /\ phonemes[x].i3 = phonemes[y].i3
        /\ phonemes[x].f5 = phonemes[y].f5

\* C15 as stated: a change in the i3 or in the f5 field between two
\* consecutive non-pause phonemes closes the current BreathGroup, so all
\* accent phrases inside one BreathGroup are built from phonemes carrying the
\* same i3 and the same f5 value.
C15_GroupSharesI3AndF5 ==
    (pc = "created" /\ outcome = "Ok") =>
        \A g \in 1..Len(utterance.breath_groups) :
            SameI3AndF5(GroupPhonemes(utterance.breath_groups[g].accent_phrases))

\* C15 as amended: a change in the i3 or in the f5 field between two
\* consecutive non-pause phonemes closes the current AccentPhrase, not the
\* BreathGroup: the phonemes of one AccentPhrase carry the same i3 and the
\* same f5 value, and two AccentPhrases that follow each other inside one
\* BreathGroup differ in i3 or in f5.
C15_PhraseSharesI3AndF5 ==
    (pc = "created" /\ outcome = "Ok") =>
        \A g \in 1..Len(utterance.breath_groups) :
            LET aps == utterance.breath_groups[g].accent_phrases
            IN  /\ \A p \in 1..Len(aps) : SameI3AndF5(PhrasePhonemes(aps[p]))
                /\ \A p \in 1..(Len(aps) - 1) :
                      \/ PhrasePhonemes(aps[p])[1].i3 # PhrasePhonemes(aps[p + 1])[1].i3
                      \/ PhrasePhonemes(aps[p])[1].f5 # PhrasePhonemes(aps[p + 1])[1].f5

\* one breath group of three accent phrases: the second differs from the first
\* in f5 only, the third from the second in i3
C15_Witness ==
    /\ pc = "created"
    /\ outcome = "Ok"
    /\ \E g \in 1..Len(utterance.breath_groups) :
          LET aps == utterance.breath_groups[g].accent_phrases
          IN  /\ Len(aps) = 3
              /\ PhrasePhonemes(aps[1])[1].i3 = PhrasePhonemes(aps[2])[1].i3
              /\ PhrasePhonemes(aps[1])[1].f5 # PhrasePhonemes(aps[2])[1].f5
              /\ PhrasePhonemes(aps[2])[1].i3 # PhrasePhonemes(aps[3])[1].i3

(***************************************************************************)
(* Claims about the boundary lists of replace_mora_pitch (Spec)            *)
(***************************************************************************)

\* list has one entry for every flat position, 0 at both ends and at every
\* pause mora, and in every accent phrase 1 at the consonant and the vowel of
\* the mora marked[p] (0-based), an existing mora, and 0 at its other moras
MarksOneMora(list, aps, flat, marked) ==
    /\ Len(list) = Len(flat)
    /\ list[1] = 0
    /\ list[Len(list)] = 0
    /\ \A p \in 1..Len(aps) : marked[p] \in 0..(Len(aps[p].moras) - 1)
    /\ \A a \in Addresses(aps) :
          LET value == IF a[2] <= Len(aps[a[1]].moras) /\ a[2] - 1 = marked[a[1]]
                       THEN 1 ELSE 0
          IN  /\ list[VowelPosition(aps, a)] = value
              /\ MoraAtAddr(aps, a).consonant # None =>
                    list[VowelPosition(aps, a) - 1] = value

\* C16: each of the four base lists of replace_mora_pitch is as long as the
\* flat phoneme sequence, is 0 at the two sentinel positions and at every
\* pause mora, and in every accent phrase is 1 at the consonant and vowel of
\* exactly one mora: the start-of-accent list marks mora 0 when accent = 1
\* and mora 1 otherwise, the end-of-accent list marks mora accent - 1, the
\* phrase-start list marks mora 0 and the phrase-end list the last mora.
C16_BaseListsMarkOneMora ==
    pc = "pitch" =>
        /\ MarksOneMora(svc.base_start_accent_list, accent_phrases, svc.phoneme_list,
              [p \in 1..Len(accent_phrases) |->
                  IF accent_phrases[p].accent = 1 THEN 0 ELSE 1])
        /\ MarksOneMora(svc.base_end_accent_list, accent_phrases, svc.phoneme_list,
              [p \in 1..Len(accent_phrases) |-> accent_phrases[p].accent - 1])
        /\ MarksOneMora(svc.base_start_accent_phrase_list, accent_phrases,
              svc.phoneme_list, [p \in 1..Len(accent_phrases) |-> 0])
        /\ MarksOneMora(svc.base_end_accent_phrase_list, accent_phrases,
              svc.phoneme_list,
              [p \in 1..Len(accent_phrases) |-> Len(accent_phrases[p].moras) - 1])


\* C16 on the utterances whose accent phrases all have an accent of 1 or more
C16_AccentInRange ==
    (\A p \in 1..Len(accent_phrases) : accent_phrases[p].accent >= 1) =>
        C16_BaseListsMarkOneMora

\* what the lists are when the accent is 0: the start-of-accent list marks
\* mora 1 when there is one, the end-of-accent list marks the last mora
C16_AccentZero ==
    pc = "pitch" =>
        /\ MarksOneMora(svc.base_start_accent_phrase_list, accent_phrases,
              svc.phoneme_list, [p \in 1..Len(accent_phrases) |-> 0])
        /\ MarksOneMora(svc.base_end_accent_phrase_list, accent_phrases,
              svc.phoneme_list,
              [p \in 1..Len(accent_phrases) |-> Len(accent_phrases[p].moras) - 1])
        /\ \A p \in 1..Len(accent_phrases) :
              accent_phrases[p].accent = 0 =>
                 \A n \in 1..Len(accent_phrases[p].moras) :
                    /\ svc.base_start_accent_list[VowelPosition(accent_phrases, <<p, n>>)]
                          = (IF n - 1 = 1 THEN 1 ELSE 0)
                    /\ svc.base_end_accent_list[VowelPosition(accent_phrases, <<p, n>>)]
                          = (IF n = Len(accent_phrases[p].moras) THEN 1 ELSE 0)

(***************************************************************************)
(* Claims about the frame-rate expansion of synthesis (Spec)               *)
(***************************************************************************)

\* duration * (24000 / 256) / speed_scale rounded up, duration in 0.001 s
FramesOf(duration, speed_scale) ==
    -((-(duration * 24000)) \div (256 * 1000 * speed_scale))

\* durations has one entry for every flat position: the pre-roll, every mora's
\* consonant length (if it has a consonant) and vowel length, the post-roll
IsDurationListOf(durations, aps, flat, pre, post) ==
    /\ Len(durations) = Len(flat)
    /\ durations[1] = pre
    /\ durations[Len(durations)] = post
    /\ \A a \in Addresses(aps) :
          /\ durations[VowelPosition(aps, a)] = MoraAtAddr(aps, a).vowel_length
          /\ MoraAtAddr(aps, a).consonant # None =>
                durations[VowelPosition(aps, a) - 1]
                   = MoraAtAddr(aps, a).consonant_length[1]

\* the vowel slot a flat position belongs to: its own when it holds a mora
\* phoneme, the one of the next mora phoneme when it holds a consonant
LaterVowelSlot(flat, pos) ==
    Cardinality({ q \in 1..(pos - 1) : Contains(MORA_PHONEME_LIST, flat[q]) }) + 1

\* for every flat position from pos on, as many copies of value[pos] as the
\* position has frames
RECURSIVE FramesFrom(_, _, _, _)
FramesFrom(durations, speed_scale, value, pos) ==
    IF pos > Len(durations) THEN <<>>
    ELSE [t \in 1..FramesOf(durations[pos], speed_scale) |-> value[pos]]
           \o FramesFrom(durations, speed_scale, value, pos + 1)

\* C17: the duration list of synthesis has one entry for every flat position
\* (pre-roll, each mora's consonant length if present and vowel length,
\* post-roll); the pitch curve and the phoneme matrix have the same number of
\* frames, the sum over the flat positions of ceil(duration * (24000 / 256) /
\* speed_scale); the frames of every position hold that position's phoneme,
\* and every frame between two consecutive vowel-index positions carries the
\* pitch entry of the later vowel slot.
C17_FrameExpansion ==
    pc = "synthesized" =>
        /\ IsDurationListOf(synth.phoneme_length_list, synth.accent_phrases,
                            synth.phoneme_data_list,
                            synth.pre_phoneme_length, synth.post_phoneme_length)
        /\ Len(synth.f0) = Len(synth.phoneme)
        /\ Len(synth.f0) =
              SeqSum([k \in 1..Len(synth.phoneme_length_list) |->
                         FramesOf(synth.phoneme_length_list[k], synth.speed_scale)])
        /\ synth.phoneme =
              FramesFrom(synth.phoneme_length_list, synth.speed_scale,
                         [k \in 1..Len(synth.phoneme_data_list) |->
                             OjtPhoneme_phoneme_id(synth.phoneme_data_list[k])], 1)
        /\ synth.f0 =
              FramesFrom(synth.phoneme_length_list, synth.speed_scale,
                         [k \in 1..Len(synth.phoneme_data_list) |->
                             synth.f0_list[LaterVowelSlot(synth.phoneme_data_list, k)]], 1)

\* at double speed: a pause mora, and a mora whose consonant frames carry the
\* pitch of its own vowel, which is not the pitch of the vowel in front of it
C17_Witness ==
    /\ pc = "synthesized"
    /\ synth.speed_scale = 2
    /\ \E p \in 1..Len(synth.accent_phrases) : synth.accent_phrases[p].pause_mora # None
    /\ \E a \in Addresses(synth.accent_phrases) :
          /\ MoraAtAddr(synth.accent_phrases, a).consonant # None
          /\ synth.f0_list[LaterVowelSlot(synth.phoneme_data_list,
                                          VowelPosition(synth.accent_phrases, a) - 1)]
                # synth.f0_list[LaterVowelSlot(synth.phoneme_data_list,
                                               VowelPosition(synth.accent_phrases, a) - 1) - 1]
          /\ FramesOf(MoraAtAddr(synth.accent_phrases, a).consonant_length[1], 2) >= 1
          /\ FramesOf(MoraAtAddr(synth.accent_phrases, a).vowel_length, 2) >= 2

\* the mora that the upspeak adjustment appends gets its frames too
C17_WithInterrogativeMora ==
    /\ pc = "synthesized"
    /\ synth.enable_interrogative_upspeak
    /\ Len(synth.phoneme_data_list) > Len(svc.phoneme_list)
    /\ Len(synth.f0) = Len(synth.phoneme)
    /\ Len(synth.f0) > 0
====
